---- MODULE Spec2Model ----
(***************************************************************************)
(* Model of src/project-bolt-sb1-mq8yygbe/src/App.tsx: the App component   *)
(* of the voice transcription / translation page.                          *)
(*                                                                         *)
(* The state is the component's useState slots, the recognition object     *)
(* held by recognitionRef (and older recognition objects whose session is  *)
(* still winding down), the translation requests in flight and the         *)
(* utterances handed to window.speechSynthesis.  Each action is one event  *)
(* handler or platform callback together with the React commit it causes:  *)
(* the state updates of the handler and then the useEffect watchers whose  *)
(* dependencies changed.                                                   *)
(*                                                                         *)
(* Text is a sequence of one-character strings, so that trim(), string     *)
(* concatenation and encodeURIComponent are computed, not assumed.         *)
(***************************************************************************)
EXTENDS Integers, Sequences, FiniteSets, TLC

VARIABLES
    isRecording,           \* useState(false), line 82
    originalText,          \* useState(''), line 83: the finalized transcript
    translatedText,        \* useState(''), line 84
    agentReply,            \* useState(''), line 85
    agentReplyTranslated,  \* useState(''), line 86
    inputLanguage,         \* useState('th'), line 87
    outputLanguage,        \* useState('en'), line 88
    isTranslating,         \* useState(false), line 89
    isTranslatingReply,    \* useState(false), line 90
    error,                 \* useState(''), line 91: the single diagnostic slot
    interimText,           \* useState(''), line 92
    isSpeaking,            \* useState(false), line 93
    recognitionRef,        \* useRef(null), line 95: the current recognition object
    oldRecognitions,       \* earlier recognition objects whose session has not ended yet
    requests,              \* fetch() calls in flight, in issue order
    synthesis,             \* window.speechSynthesis: the live utterance and cancelled ones
    rendered,              \* what the last render saw (the state slots and the ref)
                           \* and the dependencies its watchers last ran for
    lastEvent              \* the handler or callback dispatched last, with its argument

vars == <<isRecording, originalText, translatedText, agentReply,
          agentReplyTranslated, inputLanguage, outputLanguage, isTranslating,
          isTranslatingReply, error, interimText, isSpeaking, recognitionRef,
          oldRecognitions, requests, synthesis, rendered, lastEvent>>

viewVars == <<isRecording, originalText, translatedText, agentReply,
              agentReplyTranslated, inputLanguage, outputLanguage,
              isTranslating, isTranslatingReply, error, interimText,
              isSpeaking>>

\* the state slots whose rendered value the page reads back: the handlers and
\* the watchers read them from the render that made them (lines 155, 163,
\* 178, 209, 269-281) and the elements of lines 333-339, 473 and 491-536 are
\* there, enabled and bound according to them.  The other four slots
\* (translatedText, isTranslating, error, interimText) are displayed only.
View ==
    [isRecording |-> isRecording, originalText |-> originalText,
     agentReply |-> agentReply, agentReplyTranslated |-> agentReplyTranslated,
     inputLanguage |-> inputLanguage, outputLanguage |-> outputLanguage,
     isTranslatingReply |-> isTranslatingReply, isSpeaking |-> isSpeaking]

-----------------------------------------------------------------------------
(* Bounds of the model *)

MaxText == 2        \* longest finalized transcript explored
MaxSegments == 2    \* longest results list of one recognition event
MaxInFlight == 2    \* most fetch() calls in flight at once
MaxOld == 1         \* most superseded recognition objects still winding down
MaxCancelled == 1   \* most cancelled utterances whose callback is still owed
MaxQueue == 2       \* longest utterance queue of the synthesis engine explored

\* recognitionRef.current === null
Null == [state |-> "null"]
EmptyText == << >>

\* transcripts the recogniser puts in one segment
Transcripts == { << >>, <<" ">>, <<"a">> }

\* values the reply textarea is set to
TypedTexts == { << >>, <<"\n">>, <<"a">> }

\* translatedText values the service returns
ServiceTexts == { <<"x">>, <<"y">> }

\* codes carried by a recognition error event
ErrorCodes == { "no-speech", "not-allowed" }

\* the language codes offered by the two selects (a subset of the table)
languages == { "en", "th" }

\* ways a fetch() round trip ends
Outcomes == { "network_error", "transport_not_ok", "payload_not_200", "success" }

-----------------------------------------------------------------------------
(* Pure functions *)

speechLanguageCodes == [c \in languages |-> IF c = "en" THEN "en-US" ELSE "th-TH"]

\* speechLanguageCodes[code] || fallback
LocaleOf(code, fallback) ==
    IF code \in DOMAIN speechLanguageCodes THEN speechLanguageCodes[code]
    ELSE fallback

\* A character is a one-character string; a character that cannot be
\* written so is named by its code point.
NamedChars ==
    [c \in { "U+000B", "U+00A0", "U+00E9", "U+0E2A", "U+3000" } |->
        CASE c = "U+000B" -> 11
          [] c = "U+00A0" -> 160
          [] c = "U+00E9" -> 233
          [] c = "U+0E2A" -> 3626
          [] c = "U+3000" -> 12288]

\* the characters of code 32 to 126, in code order (the grave accent by name)
Printable ==
    << " ", "!", "\"", "#", "$", "%", "&", "'", "(", ")", "*", "+",
       ",", "-", ".", "/", "0", "1", "2", "3", "4", "5", "6", "7",
       "8", "9", ":", ";", "<", "=", ">", "?", "@", "A", "B", "C",
       "D", "E", "F", "G", "H", "I", "J", "K", "L", "M", "N", "O",
       "P", "Q", "R", "S", "T", "U", "V", "W", "X", "Y", "Z", "[",
       "\\", "]", "^", "_", "U+0060", "a", "b", "c", "d", "e", "f", "g",
       "h", "i", "j", "k", "l", "m", "n", "o", "p", "q", "r", "s",
       "t", "u", "v", "w", "x", "y", "z", "{", "|", "}", "~" >>

\* the code point of a character
CodeOf(c) ==
    IF c \in DOMAIN NamedChars THEN NamedChars[c]
    ELSE IF c = "\t" THEN 9
    ELSE IF c = "\n" THEN 10
    ELSE IF c = "\f" THEN 12
    ELSE IF c = "\r" THEN 13
    ELSE 31 + (CHOOSE k \in 1..Len(Printable) : Printable[k] = c)

\* the code points String.prototype.trim removes: WhiteSpace and
\* LineTerminator of ECMAScript
WhiteSpaceCodes ==
    { 9, 10, 11, 12, 13, 32, 160, 5760, 8232, 8233, 8239, 8287, 12288, 65279 }
        \cup 8192..8202

IsWhiteSpace(c) == CodeOf(c) \in WhiteSpaceCodes

RECURSIVE TrimStart(_)
TrimStart(s) ==
    IF s = << >> THEN << >>
    ELSE IF IsWhiteSpace(Head(s)) THEN TrimStart(Tail(s))
    ELSE s

RECURSIVE TrimEnd(_)
TrimEnd(s) ==
    IF s = << >> THEN << >>
    ELSE IF IsWhiteSpace(s[Len(s)]) THEN TrimEnd(SubSeq(s, 1, Len(s) - 1))
    ELSE s

\* String.prototype.trim
Trim(s) == TrimEnd(TrimStart(s))

\* faulty variant: the guard tests the text itself, not text.trim()
IsBlank_NoTrim(s) == s = << >>

\* !text.trim()
IsBlank(s) == Trim(s) = << >>

\* the characters encodeURIComponent leaves as they are
Unreserved ==
    { Printable[k] : k \in { j \in 1..Len(Printable) :
                                \/ j + 31 \in 48..57
                                \/ j + 31 \in 65..90
                                \/ j + 31 \in 97..122 } }
        \cup { "-", "_", ".", "!", "~", "*", "'", "(", ")" }

HexDigits ==
    << "0", "1", "2", "3", "4", "5", "6", "7", "8", "9", "A", "B", "C", "D", "E", "F" >>

\* the escape of one octet
PercentOctet(b) == << "%", HexDigits[(b \div 16) + 1], HexDigits[(b % 16) + 1] >>

\* the UTF-8 octets of a code point
Utf8(cp) ==
    IF cp < 128 THEN << cp >>
    ELSE IF cp < 2048 THEN << 192 + (cp \div 64), 128 + (cp % 64) >>
    ELSE IF cp < 65536
         THEN << 224 + (cp \div 4096), 128 + ((cp \div 64) % 64), 128 + (cp % 64) >>
    ELSE << 240 + (cp \div 262144), 128 + ((cp \div 4096) % 64),
            128 + ((cp \div 64) % 64), 128 + (cp % 64) >>

RECURSIVE PercentOctets(_)
PercentOctets(octets) ==
    IF octets = << >> THEN << >>
    ELSE PercentOctet(Head(octets)) \o PercentOctets(Tail(octets))

\* encodeURIComponent on one character
EncodeChar(c) ==
    IF c \in Unreserved THEN <<c>> ELSE PercentOctets(Utf8(CodeOf(c)))

RECURSIVE encodeURIComponent(_)
encodeURIComponent(s) ==
    IF s = << >> THEN << >>
    ELSE EncodeChar(Head(s)) \o encodeURIComponent(Tail(s))

-----------------------------------------------------------------------------
(* Recognition events *)

Segments == [transcript : Transcripts, isFinal : BOOLEAN]

ResultLists == UNION { [1..n -> Segments] : n \in 0..MaxSegments }

\* a SpeechRecognitionEvent: the results list and the resume index
Batches == { [results |-> r, resultIndex |-> i] :
                r \in ResultLists, i \in 0..MaxSegments }

\* faulty variant: a final transcript is put in front of the text gathered so far
RECURSIVE ResultLoop_Prepend(_, _, _, _)
ResultLoop_Prepend(results, i, finalTranscript, interimTranscript) ==
    IF i < Len(results)
    THEN LET transcript == results[i + 1].transcript
         IN IF results[i + 1].isFinal
            THEN ResultLoop_Prepend(results, i + 1, transcript \o finalTranscript,
                                    interimTranscript)
            ELSE ResultLoop_Prepend(results, i + 1, finalTranscript,
                                    interimTranscript \o transcript)
    ELSE [finalTranscript |-> finalTranscript, interimTranscript |-> interimTranscript]

\* the loop of lines 111-118, i is the 0-based loop index
RECURSIVE ResultLoop(_, _, _, _)
ResultLoop(results, i, finalTranscript, interimTranscript) ==
    IF i < Len(results)
    THEN LET transcript == results[i + 1].transcript
         IN IF results[i + 1].isFinal
            THEN ResultLoop(results, i + 1, finalTranscript \o transcript, interimTranscript)
            ELSE ResultLoop(results, i + 1, finalTranscript, interimTranscript \o transcript)
    ELSE [finalTranscript |-> finalTranscript, interimTranscript |-> interimTranscript]

-----------------------------------------------------------------------------
(* Initial state: the first render and its mount effects *)

\* new SpeechRecognitionAPI() of lines 100-105, bound to the locale of code
NewRecognition(code) == [state |-> "idle", lang |-> LocaleOf(code, "th-TH")]

NoEvent == [op |-> "mount"]

Init ==
    /\ isRecording = FALSE
    /\ originalText = EmptyText
    /\ translatedText = EmptyText
    /\ agentReply = EmptyText
    /\ agentReplyTranslated = EmptyText
    /\ inputLanguage = "th"
    /\ outputLanguage = "en"
    /\ isTranslating = FALSE
    /\ isTranslatingReply = FALSE
    /\ interimText = EmptyText
    /\ isSpeaking = FALSE
    /\ \E recognitionSupported \in BOOLEAN :
          IF recognitionSupported
          THEN /\ recognitionRef = NewRecognition("th")
               /\ error = ""
          ELSE /\ recognitionRef = Null
               /\ error = "Speech recognition is not supported in this browser."
    /\ oldRecognitions = << >>
    /\ requests = << >>
    /\ \E synthesisSupported \in BOOLEAN :
          synthesis = [supported |-> synthesisSupported,
                       queue |-> << >>,
                       cancelled |-> 0]
    /\ rendered = [view |-> View, recognition |-> FALSE,
                   watched |-> [originalText |-> EmptyText, agentReply |-> EmptyText,
                                inputLanguage |-> "th", outputLanguage |-> "en"]]
    /\ lastEvent = NoEvent

-----------------------------------------------------------------------------
(* Rendering.  The state variables hold each slot's value once every       *)
(* update made so far is applied; rendered.view holds the values of the    *)
(* last render for the slots of View, which are the values the handlers,   *)
(* the watchers and the elements' properties read.  The updates a React    *)
(* event handler makes (a click, a change of a select or of the textarea)  *)
(* are rendered before the next event is dispatched, and the watchers of   *)
(* that render run with it; the updates still waiting are not part of that *)
(* render.  An update made anywhere else (a recognition listener, a        *)
(* watcher, the continuation of a fetch, an utterance callback) waits for  *)
(* the render task, and the updates made before that task runs are         *)
(* rendered together.  The watchers of a render made by the render task    *)
(* run in a task of their own, after the commit: callbacks of the platform *)
(* may run in between.  They run at the latest when the next render        *)
(* starts.  rendered.watched holds the dependencies the watchers last ran  *)
(* for.                                                                    *)

\* the updates of a platform callback wait for the render task
Defers == UNCHANGED rendered

\* the values the watchers of lines 269-281 depend on
Deps(view) ==
    [originalText |-> view.originalText, agentReply |-> view.agentReply,
     inputLanguage |-> view.inputLanguage, outputLanguage |-> view.outputLanguage]

\* the render task has committed a change of some dependency and the
\* watchers have not run for it yet
EffectsPending == Deps(rendered.view) # rendered.watched

-----------------------------------------------------------------------------
(* The commit: the translation watchers of lines 269-281 *)

\* the fetch() of translateText, lines 185-187
ForwardRequest(text, inLang, outLang) ==
    [slot |-> "forward", q |-> encodeURIComponent(text), langpair |-> <<inLang, outLang>>]

\* faulty variant: the reverse request keeps the forward order of the language pair
ReplyRequest_Unswapped(text, inLang, outLang) ==
    [slot |-> "reply", q |-> encodeURIComponent(text), langpair |-> <<inLang, outLang>>]

\* the fetch() of translateAgentReply, lines 216-218
ReplyRequest(text, inLang, outLang) ==
    [slot |-> "reply", q |-> encodeURIComponent(text), langpair |-> <<outLang, inLang>>]

\* the forward watcher of lines 269-273 runs, its dependencies differ from
\* those of the render before, and translateText is entered past its guard
\* of line 178
ForwardFires(before, view) ==
    /\ <<view.originalText, view.inputLanguage, view.outputLanguage>>
          # <<before.originalText, before.inputLanguage, before.outputLanguage>>
    /\ ~IsBlank(view.originalText)

\* the dependencies of the reply watcher differ from those of the render before
ReplyDepsChanged(before, view) ==
    <<view.agentReply, view.inputLanguage, view.outputLanguage>>
        # <<before.agentReply, before.inputLanguage, before.outputLanguage>>

\* translateAgentReply is entered past its guard of line 209
ReplyFires(before, view) == ReplyDepsChanged(before, view) /\ ~IsBlank(view.agentReply)

\* faulty variant: the forward fetch() is issued for a blank transcript too,
\* past the state updates of translateText
NewRequests_BlankToo(before, view) ==
    (IF <<view.originalText, view.inputLanguage, view.outputLanguage>>
           # <<before.originalText, before.inputLanguage, before.outputLanguage>>
     THEN <<ForwardRequest(view.originalText, view.inputLanguage, view.outputLanguage)>>
     ELSE << >>)
    \o (IF ReplyFires(before, view)
        THEN <<ReplyRequest(view.agentReply, view.inputLanguage, view.outputLanguage)>>
        ELSE << >>)

\* the requests the two watchers issue for one render, forward watcher first
NewRequests(before, view) ==
    (IF ForwardFires(before, view)
     THEN <<ForwardRequest(view.originalText, view.inputLanguage, view.outputLanguage)>>
     ELSE << >>)
    \o (IF ReplyFires(before, view)
        THEN <<ReplyRequest(view.agentReply, view.inputLanguage, view.outputLanguage)>>
        ELSE << >>)

\* faulty variant: the watcher tests agentReply, not agentReply.trim()
ReplyTranslatedAfter_EmptyOnly(before, view, art) ==
    IF ReplyDepsChanged(before, view) /\ view.agentReply = EmptyText
    THEN EmptyText ELSE art

\* the reply-translated slot after the reply watcher, lines 275-281
ReplyTranslatedAfter(before, view, art) ==
    IF ReplyDepsChanged(before, view) /\ IsBlank(view.agentReply)
    THEN EmptyText ELSE art

\* faulty variant: a new request aborts the older requests of its slot
RequestsAfter_AbortOlder(inFlight, new) ==
    SelectSeq(inFlight, LAMBDA r : \A k \in 1..Len(new) : new[k].slot # r.slot)
        \o new

\* the fetch() calls in flight after the watchers ran: the translate functions
\* keep no handle on earlier calls (no AbortController), lines 185 and 216
RequestsAfter(inFlight, new) == inFlight \o new

\* what the watchers write: the two busy flags, the diagnostic, the
\* reply-translated slot and the fetch() calls in flight; err and art are the
\* diagnostic and the reply-translated slot before the watchers run
Slots(err, art) ==
    [isTranslating |-> isTranslating, isTranslatingReply |-> isTranslatingReply,
     error |-> err, agentReplyTranslated |-> art, requests |-> requests]

\* the watchers of lines 269-281 for a render of the values of view, where
\* before holds the dependencies of the render before it: each watcher whose
\* dependencies differ runs, up to its translate function's first await
Watchers(before, view, slots) ==
    [isTranslating |-> slots.isTranslating \/ ForwardFires(before, view),
     isTranslatingReply |-> slots.isTranslatingReply \/ ReplyFires(before, view),
     error |-> IF ForwardFires(before, view) \/ ReplyFires(before, view)
               THEN "" ELSE slots.error,
     agentReplyTranslated |->
        ReplyTranslatedAfter(before, view, slots.agentReplyTranslated),
     requests |-> RequestsAfter(slots.requests, NewRequests(before, view))]

\* the watchers still owed to the last render run now (React runs them
\* before it renders again); nothing is written when none is owed
Flushed(slots) == Watchers(rendered.watched, rendered.view, slots)

\* the slots the watchers write take the values of slots
Written(slots) ==
    /\ Len(slots.requests) <= MaxInFlight
    /\ isTranslating' = slots.isTranslating
    /\ isTranslatingReply' = slots.isTranslatingReply
    /\ error' = slots.error
    /\ agentReplyTranslated' = slots.agentReplyTranslated
    /\ requests' = slots.requests

\* the render of a React event handler: the watchers owed to the render
\* before run first, then React renders the values of view and runs the
\* watchers of this render with them.  err and art are the diagnostic and the
\* reply-translated slot as the handler left them; what the watchers set
\* waits for the render task.  Line 339 reads the ref in a render that changes
\* some slot; a render that changes none leaves the elements as they are.
\* (No displayed-only slot changes before a slot of View has: the first
\* changes of the page are the user's.)
Commit(view, err, art) ==
    /\ Written(Watchers(rendered.view, view, Flushed(Slots(err, art))))
    /\ rendered' = [view |-> view,
                    recognition |-> IF view # rendered.view
                                    THEN recognitionRef # Null
                                    ELSE rendered.recognition,
                    watched |-> Deps(view)]

-----------------------------------------------------------------------------
(* Recognition: the listeners of lines 107-136 *)

Active(r) == r # Null /\ r.state # "idle"
Delivering(r) == r # Null /\ r.state \in {"listening", "stopping"}

\* the recognition objects with a session: the current one is index 0
Sessions == { i \in 0..Len(oldRecognitions) :
                 Active(IF i = 0 THEN recognitionRef ELSE oldRecognitions[i]) }

SessionAt(i) == IF i = 0 THEN recognitionRef ELSE oldRecognitions[i]

RemoveAt(s, i) == SubSeq(s, 1, i - 1) \o SubSeq(s, i + 1, Len(s))

\* session i moves to state st; an old object whose session ended is dropped
SetSession(i, st) ==
    IF i = 0
    THEN /\ recognitionRef' = [recognitionRef EXCEPT !.state = st]
         /\ UNCHANGED oldRecognitions
    ELSE /\ UNCHANGED recognitionRef
         /\ oldRecognitions' =
               IF st = "idle" THEN RemoveAt(oldRecognitions, i)
               ELSE [oldRecognitions EXCEPT ![i].state = st]

\* faulty variant: the interim buffer is committed with the final text
TranscriptAfter_WithInterim(prev, r) ==
    prev \o r.finalTranscript \o r.interimTranscript

\* the finalized transcript after a batch, lines 120-121
TranscriptAfter(prev, r) ==
    IF r.finalTranscript # EmptyText THEN prev \o r.finalTranscript ELSE prev

\* faulty variant: the interim text is replaced by the buffer on every batch
InterimAfter_Keep(r) == r.interimTranscript

\* the interim text after a batch, lines 120-125
InterimAfter(r) ==
    IF r.finalTranscript # EmptyText THEN EmptyText ELSE r.interimTranscript

\* 'result' listener, lines 107-126
OnResult(batch) ==
    /\ \E i \in Sessions : Delivering(SessionAt(i))
    /\ LET r == ResultLoop(batch.results, batch.resultIndex, EmptyText, EmptyText)
       IN /\ Len(originalText) + Len(r.finalTranscript) <= MaxText
          /\ originalText' = TranscriptAfter(originalText, r)
          /\ interimText' = InterimAfter(r)
    /\ lastEvent' = [op |-> "result", batch |-> batch]
    /\ UNCHANGED <<isRecording, translatedText, agentReply, agentReplyTranslated,
                   inputLanguage, outputLanguage, isTranslating,
                   isTranslatingReply, error, isSpeaking, recognitionRef,
                   oldRecognitions, requests, synthesis>>
    /\ Defers

\* faulty variant: the error listener sets the diagnostic only
OnError_KeepsStatus(code) ==
    /\ \E i \in Sessions :
          /\ Delivering(SessionAt(i))
          /\ SetSession(i, "errored")
    /\ error' = "Speech recognition error: " \o code
    /\ isRecording' = isRecording
    /\ lastEvent' = [op |-> "error", code |-> code]
    /\ UNCHANGED <<originalText, translatedText, agentReply, agentReplyTranslated,
                   inputLanguage, outputLanguage, isTranslating,
                   isTranslatingReply, interimText, isSpeaking, requests,
                   synthesis>>
    /\ Defers

\* 'error' listener, lines 128-131; the session's end event is still to come
OnError(code) ==
    /\ \E i \in Sessions :
          /\ Delivering(SessionAt(i))
          /\ SetSession(i, "errored")
    /\ error' = "Speech recognition error: " \o code
    /\ isRecording' = FALSE
    /\ lastEvent' = [op |-> "error", code |-> code]
    /\ UNCHANGED <<originalText, translatedText, agentReply, agentReplyTranslated,
                   inputLanguage, outputLanguage, isTranslating,
                   isTranslatingReply, interimText, isSpeaking, requests,
                   synthesis>>
    /\ Defers

\* faulty variant: the end listener leaves the interim text
InterimAfterEnd_Keep(interim) == interim

\* the interim text after the end event, line 135
InterimAfterEnd(interim) == EmptyText

\* 'end' listener, lines 133-136, for the session of object i
SessionEnds(i) ==
    /\ i \in Sessions
    /\ SetSession(i, "idle")
    /\ isRecording' = FALSE
    /\ interimText' = InterimAfterEnd(interimText)
    /\ lastEvent' = [op |-> "end", lang |-> SessionAt(i).lang,
                     from |-> SessionAt(i).state]
    /\ UNCHANGED <<originalText, translatedText, agentReply, agentReplyTranslated,
                   inputLanguage, outputLanguage, isTranslating,
                   isTranslatingReply, error, isSpeaking, requests, synthesis>>
    /\ Defers

OnEnd == \E i \in 0..MaxOld : SessionEnds(i)

-----------------------------------------------------------------------------
(* Recording controls and the other user events *)

\* startRecording, lines 154-160.  The button of lines 332-339 is enabled
\* when the last render saw a recognition object, and it calls startRecording
\* when that render saw isRecording false; the handler reads isRecording from
\* the same render.  start() on an object whose session has not ended throws
\* InvalidStateError and leaves the session as it is; the two state updates
\* made before the call are committed all the same.
StartRecording ==
    /\ rendered.recognition
    /\ ~rendered.view.isRecording
    /\ recognitionRef # Null
    /\ Commit([rendered.view EXCEPT !.isRecording = TRUE],
              "", agentReplyTranslated)
    /\ isRecording' = TRUE
    /\ recognitionRef' =
          IF Active(recognitionRef) THEN recognitionRef
          ELSE [recognitionRef EXCEPT !.state = "listening"]
    /\ lastEvent' = [op |-> "start", threw |-> Active(recognitionRef)]
    /\ UNCHANGED <<originalText, translatedText, agentReply, inputLanguage,
                   outputLanguage, interimText, isSpeaking, oldRecognitions,
                   synthesis>>

\* faulty variant: startRecording tests isRecording only
StartRecordingInert_NoRefTest ==
    /\ recognitionRef = Null
    /\ ~rendered.view.isRecording
    /\ Commit([rendered.view EXCEPT !.isRecording = TRUE],
              "", agentReplyTranslated)
    /\ isRecording' = TRUE
    /\ lastEvent' = [op |-> "startIgnored"]
    /\ UNCHANGED <<originalText, translatedText, agentReply, inputLanguage,
                   outputLanguage, interimText, isSpeaking, recognitionRef,
                   oldRecognitions, synthesis>>

\* startRecording, lines 154-160, called while recognitionRef.current is
\* null: the condition of line 155 fails and the handler returns (the button
\* of line 339 is disabled then, and a click on it reaches no handler)
StartRecordingInert ==
    /\ recognitionRef = Null
    /\ ~rendered.view.isRecording
    /\ lastEvent' = [op |-> "startIgnored"]
    /\ UNCHANGED <<viewVars, recognitionRef, oldRecognitions, requests, synthesis,
                   rendered>>

\* stop() of the platform: a listening session starts winding down
StopSession(r) ==
    IF r # Null /\ r.state = "listening" THEN [r EXCEPT !.state = "stopping"] ELSE r

\* stopRecording, lines 162-166: the button calls it when the last render
\* saw isRecording true, and the handler reads isRecording from that render
StopRecording ==
    /\ rendered.recognition
    /\ rendered.view.isRecording
    /\ recognitionRef # Null
    /\ recognitionRef' = StopSession(recognitionRef)
    /\ lastEvent' = [op |-> "stop", wasListening |-> recognitionRef.state = "listening"]
    /\ UNCHANGED <<viewVars, oldRecognitions, requests, synthesis>>
    /\ Defers

\* faulty variant: clearText leaves the translated slot
ClearText_KeepsTranslation ==
    /\ Commit([rendered.view EXCEPT !.originalText = EmptyText,
                                    !.agentReply = EmptyText,
                                    !.agentReplyTranslated = EmptyText],
              "", EmptyText)
    /\ originalText' = EmptyText
    /\ translatedText' = translatedText
    /\ agentReply' = EmptyText
    /\ interimText' = EmptyText
    /\ lastEvent' = [op |-> "clear"]
    /\ UNCHANGED <<isRecording, inputLanguage, outputLanguage, isSpeaking,
                   recognitionRef, oldRecognitions, synthesis>>

\* clearText, lines 168-175
ClearText ==
    /\ Commit([rendered.view EXCEPT !.originalText = EmptyText,
                                    !.agentReply = EmptyText,
                                    !.agentReplyTranslated = EmptyText],
              "", EmptyText)
    /\ originalText' = EmptyText
    /\ translatedText' = EmptyText
    /\ agentReply' = EmptyText
    /\ interimText' = EmptyText
    /\ lastEvent' = [op |-> "clear"]
    /\ UNCHANGED <<isRecording, inputLanguage, outputLanguage, isSpeaking,
                   recognitionRef, oldRecognitions, synthesis>>

\* the reply textarea's onChange, line 457, which the browser raises for a
\* text other than the one rendered, and the clear-reply button, line 463,
\* which sets the empty text whatever the reply is; React renders for either
SetAgentReply(text) ==
    /\ text # rendered.view.agentReply \/ text = EmptyText
    /\ Commit([rendered.view EXCEPT !.agentReply = text], error, agentReplyTranslated)
    /\ agentReply' = text
    /\ lastEvent' = [op |-> "reply"]
    /\ UNCHANGED <<isRecording, originalText, translatedText, inputLanguage,
                   outputLanguage, interimText, isSpeaking, recognitionRef,
                   oldRecognitions, synthesis>>

\* the input-language select, line 301, and the effects of lines 97-153 it
\* re-runs: the cleanup stops the current object, then a new object is made
\* (or the unsupported diagnostic is set again)
SetInputLanguage(code) ==
    /\ code # rendered.view.inputLanguage
    /\ LET stopped == StopSession(recognitionRef)
       IN /\ Active(stopped) => Len(oldRecognitions) < MaxOld
          /\ oldRecognitions' =
                IF Active(stopped) THEN Append(oldRecognitions, stopped)
                ELSE oldRecognitions
    /\ recognitionRef' =
          IF recognitionRef = Null THEN Null ELSE NewRecognition(code)
    /\ Commit([rendered.view EXCEPT !.inputLanguage = code],
              IF recognitionRef = Null
              THEN "Speech recognition is not supported in this browser."
              ELSE error,
              agentReplyTranslated)
    /\ inputLanguage' = code
    /\ lastEvent' = [op |-> "inputLanguage"]
    /\ UNCHANGED <<isRecording, originalText, translatedText, agentReply,
                   outputLanguage, interimText, isSpeaking, synthesis>>

\* the output-language select, line 318
SetOutputLanguage(code) ==
    /\ code # rendered.view.outputLanguage
    /\ Commit([rendered.view EXCEPT !.outputLanguage = code], error,
              agentReplyTranslated)
    /\ outputLanguage' = code
    /\ lastEvent' = [op |-> "outputLanguage"]
    /\ UNCHANGED <<isRecording, originalText, translatedText, agentReply,
                   inputLanguage, interimText, isSpeaking, recognitionRef,
                   oldRecognitions, synthesis>>

\* the render task: the watchers still owed to the render before run, then
\* the updates made since that render and still waiting are rendered
\* together and committed; the watchers of this render are left to a later task
Render ==
    /\ View # rendered.view
    /\ Written(Flushed(Slots(error, agentReplyTranslated)))
    /\ UNCHANGED <<isRecording, originalText, translatedText, agentReply,
                   inputLanguage, outputLanguage, interimText, isSpeaking,
                   recognitionRef, oldRecognitions, synthesis>>
    /\ rendered' = [view |-> View', recognition |-> recognitionRef # Null,
                    watched |-> Deps(rendered.view)]
    /\ lastEvent' = [op |-> "render"]

\* the task of the watchers of lines 269-281, for the render the render task
\* committed last: they read the values of that render and write on top of
\* whatever the callbacks that ran since the commit have written
Effects ==
    /\ EffectsPending
    /\ Written(Flushed(Slots(error, agentReplyTranslated)))
    /\ rendered' = [rendered EXCEPT !.watched = Deps(rendered.view)]
    /\ lastEvent' = [op |-> "effects"]
    /\ UNCHANGED <<isRecording, originalText, translatedText, agentReply,
                   inputLanguage, outputLanguage, interimText, isSpeaking,
                   recognitionRef, oldRecognitions, synthesis>>

-----------------------------------------------------------------------------
(* Translation: the rest of translateText and translateAgentReply *)

Succeeded(outcome) == outcome = "success"

\* faulty variant: a failed forward translation clears the translated slot
ForwardSettle_ClearOnFailure(outcome, text) ==
    /\ translatedText' = IF Succeeded(outcome) THEN text ELSE EmptyText
    /\ error' = IF Succeeded(outcome) THEN error
                ELSE "Translation failed. Please try again."
    /\ isTranslating' = FALSE
    /\ UNCHANGED <<agentReplyTranslated, isTranslatingReply>>

\* translateText after its await, lines 189-205
ForwardSettle(outcome, text) ==
    /\ translatedText' = IF Succeeded(outcome) THEN text ELSE translatedText
    /\ error' = IF Succeeded(outcome) THEN error
                ELSE "Translation failed. Please try again."
    /\ isTranslating' = FALSE
    /\ UNCHANGED <<agentReplyTranslated, isTranslatingReply>>

\* faulty variant: the busy flag is cleared on the success path only
ReplySettle_NoFinally(outcome, text) ==
    /\ agentReplyTranslated' = IF Succeeded(outcome) THEN text ELSE agentReplyTranslated
    /\ error' = IF Succeeded(outcome) THEN error
                ELSE "Agent reply translation failed. Please try again."
    /\ isTranslatingReply' = (IF Succeeded(outcome) THEN FALSE ELSE isTranslatingReply)
    /\ UNCHANGED <<translatedText, isTranslating>>

\* translateAgentReply after its await, lines 220-236
ReplySettle(outcome, text) ==
    /\ agentReplyTranslated' = IF Succeeded(outcome) THEN text ELSE agentReplyTranslated
    /\ error' = IF Succeeded(outcome) THEN error
                ELSE "Agent reply translation failed. Please try again."
    /\ isTranslatingReply' = FALSE
    /\ UNCHANGED <<translatedText, isTranslating>>

\* the request is not the one its watcher would issue for the values of the
\* last render: its trigger has changed since it was issued
Superseded(request) ==
    request # (IF request.slot = "forward"
               THEN ForwardRequest(rendered.view.originalText,
                                   rendered.view.inputLanguage,
                                   rendered.view.outputLanguage)
               ELSE ReplyRequest(rendered.view.agentReply,
                                 rendered.view.inputLanguage,
                                 rendered.view.outputLanguage))

\* the response replaces another translation shown in its slot
Overwrites(slot, outcome, text) ==
    LET shown == IF slot = "forward" THEN translatedText ELSE agentReplyTranslated
    IN Succeeded(outcome) /\ shown # EmptyText /\ shown # text

\* an older call of the same slot is still in flight when call i is answered
Ahead(i) == \E j \in 1..(i - 1) : requests[j].slot = requests[i].slot

\* call i is the oldest of its slot, and the event before this one was the
\* translation returned for a call of the slot made after it
Overtaken(i) ==
    /\ ~Ahead(i)
    /\ lastEvent.op = "response"
    /\ lastEvent.slot = requests[i].slot
    /\ lastEvent.outcome = "success"
    /\ lastEvent.ahead

\* the translate call of request i runs from its pending await to its end:
\* fetch() rejected, the response was not ok, or the body was parsed (the
\* request stays in flight until then); text is the body's translatedText
FetchSettle(i, outcome, text) ==
    /\ i \in 1..Len(requests)
    /\ Succeeded(outcome) \/ text = EmptyText
    /\ IF requests[i].slot = "forward"
       THEN ForwardSettle(outcome, text)
       ELSE ReplySettle(outcome, text)
    /\ requests' = RemoveAt(requests, i)
    /\ lastEvent' = [op |-> "response", slot |-> requests[i].slot,
                     outcome |-> outcome, text |-> text,
                     superseded |-> Superseded(requests[i]),
                     ahead |-> Ahead(i),
                     overtaken |-> Overtaken(i),
                     overwrote |-> Overwrites(requests[i].slot, outcome, text)]
    /\ UNCHANGED <<isRecording, originalText, agentReply, inputLanguage,
                   outputLanguage, interimText, isSpeaking, recognitionRef,
                   oldRecognitions, synthesis>>
    /\ Defers

-----------------------------------------------------------------------------
(* Speech output: speakText, lines 239-260, and the utterance callbacks *)

\* new SpeechSynthesisUtterance(text) with its lang, lines 244-247
Utterance(text, language) ==
    [text |-> text, lang |-> LocaleOf(language, "en-US"), started |-> FALSE]

\* faulty variant: the utterances in progress are left in the queue
Cancel_Nothing(engine) == engine

\* window.speechSynthesis.cancel(), line 242: every utterance leaves the
\* queue; the platform may still deliver an end or error callback for each
Cancel(engine) ==
    [engine EXCEPT !.queue = << >>, !.cancelled = @ + Len(engine.queue)]

\* window.speechSynthesis.speak(utterance), line 256
Enqueue(engine, utterance) ==
    [engine EXCEPT !.queue = Append(@, utterance)]

\* the text-to-speech diagnostic of line 258
NoSynthesis == "Text-to-speech is not supported in this browser."

\* faulty variant: speak() without the cancel() before it
speakText_NoCancel(text, language) ==
    IF synthesis.supported
    THEN /\ synthesis' = Enqueue(synthesis, Utterance(text, language))
         /\ synthesis'.cancelled <= MaxCancelled
         /\ Len(synthesis'.queue) <= MaxQueue
         /\ UNCHANGED <<error, agentReplyTranslated, isTranslating,
                        isTranslatingReply, requests>>
         /\ Defers
    ELSE /\ Commit(rendered.view, NoSynthesis, agentReplyTranslated)
         /\ UNCHANGED synthesis

\* speakText(text, language), lines 239-260.  Without speech synthesis the
\* handler sets the diagnostic of line 258 and React renders for it.
speakText(text, language) ==
    IF synthesis.supported
    THEN /\ synthesis' = Enqueue(Cancel(synthesis), Utterance(text, language))
         /\ synthesis'.cancelled <= MaxCancelled
         /\ Len(synthesis'.queue) <= MaxQueue
         /\ UNCHANGED <<error, agentReplyTranslated, isTranslating,
                        isTranslatingReply, requests>>
         /\ Defers
    ELSE /\ Commit(rendered.view, NoSynthesis, agentReplyTranslated)
         /\ UNCHANGED synthesis

\* the last render showed the reply panel of line 473
ReplyPanelShown ==
    ~IsBlank(rendered.view.agentReply) \/ rendered.view.isTranslatingReply

SpeakFrame ==
    UNCHANGED <<isRecording, originalText, translatedText, agentReply,
                inputLanguage, outputLanguage, interimText, isSpeaking,
                recognitionRef, oldRecognitions>>

\* the play button of the reply, lines 491-501, rendered while agentReply is
\* not empty and disabled while isSpeaking; it speaks the text it was rendered with
SpeakReply ==
    /\ ReplyPanelShown
    /\ rendered.view.agentReply # EmptyText
    /\ ~rendered.view.isSpeaking
    /\ speakText(rendered.view.agentReply, rendered.view.outputLanguage)
    /\ lastEvent' = [op |-> "speak", text |-> rendered.view.agentReply]
    /\ SpeakFrame

\* the play button of the translated reply, lines 526-536
SpeakReplyTranslated ==
    /\ ReplyPanelShown
    /\ rendered.view.agentReplyTranslated # EmptyText
    /\ ~rendered.view.isSpeaking
    /\ speakText(rendered.view.agentReplyTranslated, rendered.view.inputLanguage)
    /\ lastEvent' = [op |-> "speak", text |-> rendered.view.agentReplyTranslated]
    /\ SpeakFrame

SynthesisFrame ==
    UNCHANGED <<isRecording, originalText, translatedText, agentReply,
                agentReplyTranslated, inputLanguage, outputLanguage,
                isTranslating, isTranslatingReply, interimText,
                recognitionRef, oldRecognitions, requests, rendered>>

\* the utterance the engine is playing or about to play
HasLive == synthesis.queue # << >>
Live == Head(synthesis.queue)

\* utterance.onstart, line 249
UtteranceStart ==
    /\ HasLive
    /\ ~Live.started
    /\ synthesis' = [synthesis EXCEPT !.queue[1].started = TRUE]
    /\ isSpeaking' = TRUE
    /\ lastEvent' = [op |-> "utteranceStart"]
    /\ UNCHANGED error
    /\ SynthesisFrame

\* utterance.onend, line 250, of the utterance being played
UtteranceEnd ==
    /\ HasLive
    /\ Live.started
    /\ synthesis' = [synthesis EXCEPT !.queue = Tail(@)]
    /\ isSpeaking' = FALSE
    /\ lastEvent' = [op |-> "utteranceEnd", live |-> TRUE]
    /\ UNCHANGED error
    /\ SynthesisFrame

\* utterance.onerror, lines 251-254, of the utterance being played or about to be
UtteranceError ==
    /\ HasLive
    /\ synthesis' = [synthesis EXCEPT !.queue = Tail(@)]
    /\ isSpeaking' = FALSE
    /\ error' = "Text-to-speech failed. Please try again."
    /\ lastEvent' = [op |-> "utteranceError", live |-> TRUE]
    /\ SynthesisFrame

\* onend of an utterance that cancel() dropped
CancelledEnd ==
    /\ synthesis.cancelled > 0
    /\ synthesis' = [synthesis EXCEPT !.cancelled = @ - 1]
    /\ isSpeaking' = FALSE
    /\ lastEvent' = [op |-> "utteranceEnd", live |-> FALSE]
    /\ UNCHANGED error
    /\ SynthesisFrame

\* onerror of an utterance that cancel() dropped
CancelledError ==
    /\ synthesis.cancelled > 0
    /\ synthesis' = [synthesis EXCEPT !.cancelled = @ - 1]
    /\ isSpeaking' = FALSE
    /\ error' = "Text-to-speech failed. Please try again."
    /\ lastEvent' = [op |-> "utteranceError", live |-> FALSE]
    /\ SynthesisFrame

\* the platform delivers no callback for an utterance that cancel() dropped
CancelledSilently ==
    /\ synthesis.cancelled > 0
    /\ synthesis' = [synthesis EXCEPT !.cancelled = @ - 1]
    /\ lastEvent' = [op |-> "utteranceDropped"]
    /\ UNCHANGED <<error, isSpeaking>>
    /\ SynthesisFrame

-----------------------------------------------------------------------------
(* Specifications.  Next is every handler and callback of the page.  The   *)
(* controllers are explored one at a time: each specification below keeps  *)
(* the handlers of one controller and of what feeds it, with the inputs    *)
(* that controller's behaviour depends on.                                 *)

\* some fetch() in flight settles
FetchSettles ==
    \E i \in 1..MaxInFlight, outcome \in Outcomes, text \in ServiceTexts \cup {EmptyText} :
       FetchSettle(i, outcome, text)

\* some fetch() in flight is answered with a translation
FetchAnswered ==
    \E i \in 1..MaxInFlight : FetchSettle(i, "success", <<"x">>)

\* batches of one segment "a", final or not
WordBatches ==
    { b \in Batches : /\ Len(b.results) = 1
                      /\ b.resultIndex = 0
                      /\ b.results[1].transcript = <<"a">> }

\* batches of one final segment with some text, blank or not
FinalBatches ==
    { b \in Batches : /\ Len(b.results) = 1
                      /\ b.resultIndex = 0
                      /\ b.results[1].transcript # EmptyText
                      /\ b.results[1].isFinal }

\* the result listener on every batch, within one recognition object
NextResults ==
    \/ StartRecording
    \/ \E batch \in Batches : OnResult(batch)
    \/ StopRecording
    \/ OnEnd
    \/ \E code \in languages : SetOutputLanguage(code)
    \/ FetchAnswered
    \/ Render
    \/ Effects

\* the life cycle of the recognition sessions, with a service that answers
NextRecognition ==
    \/ StartRecording
    \/ StopRecording
    \/ \E batch \in WordBatches : OnResult(batch)
    \/ \E code \in ErrorCodes : OnError(code)
    \/ OnEnd
    \/ ClearText
    \/ \E code \in languages : SetInputLanguage(code)
    \/ FetchAnswered
    \/ Render
    \/ Effects

\* the forward translation: transcript and both language selects
NextForward ==
    \/ StartRecording
    \/ \E batch \in FinalBatches : OnResult(batch)
    \/ ClearText
    \/ \E code \in languages : SetInputLanguage(code)
    \/ \E code \in languages : SetOutputLanguage(code)
    \/ FetchSettles
    \/ Render
    \/ Effects

\* the reverse translation: reply text and both language selects
NextReply ==
    \/ \E text \in TypedTexts : SetAgentReply(text)
    \/ ClearText
    \/ \E code \in languages : SetInputLanguage(code)
    \/ \E code \in languages : SetOutputLanguage(code)
    \/ FetchSettles
    \/ Render

\* the translation client with both of its slots in use, for one language pair
NextTranslation ==
    \/ StartRecording
    \/ \E batch \in FinalBatches : OnResult(batch)
    \/ ClearText
    \/ \E text \in TypedTexts : SetAgentReply(text)
    \/ FetchSettles
    \/ Render
    \/ Effects

\* the speech output controller and what feeds its two play buttons
NextSpeech ==
    \/ \E text \in TypedTexts : SetAgentReply(text)
    \/ FetchSettles
    \/ ClearText
    \/ SpeakReply
    \/ SpeakReplyTranslated
    \/ UtteranceStart
    \/ UtteranceEnd
    \/ UtteranceError
    \/ CancelledEnd
    \/ CancelledError
    \/ CancelledSilently
    \/ Render

\* the page on a platform with neither speech recognition nor speech synthesis
NextUnsupported ==
    \/ StartRecordingInert
    \/ ClearText
    \/ \E text \in TypedTexts : SetAgentReply(text)
    \/ \E code \in languages : SetInputLanguage(code)
    \/ \E code \in languages : SetOutputLanguage(code)
    \/ FetchSettles
    \/ SpeakReply
    \/ SpeakReplyTranslated
    \/ Render

\* both watchers at once: transcript, reply text and both language selects,
\* with a service that answers
NextTriggers ==
    \/ StartRecording
    \/ \E batch \in WordBatches : OnResult(batch)
    \/ \E text \in TypedTexts : SetAgentReply(text)
    \/ \E code \in languages : SetInputLanguage(code)
    \/ \E code \in languages : SetOutputLanguage(code)
    \/ FetchAnswered
    \/ Render
    \/ Effects

\* the play buttons while the transcript is being recognised and translated
NextNoSynthesis ==
    \/ StartRecording
    \/ \E batch \in WordBatches : OnResult(batch)
    \/ \E text \in TypedTexts : SetAgentReply(text)
    \/ FetchAnswered
    \/ SpeakReply
    \/ SpeakReplyTranslated
    \/ Render
    \/ Effects

Next ==
    \/ NextResults
    \/ NextRecognition
    \/ NextForward
    \/ NextReply
    \/ NextTranslation
    \/ NextSpeech
    \/ NextUnsupported
    \/ NextTriggers
    \/ NextNoSynthesis

Spec == Init /\ [][Next]_vars

\* the page on a platform with speech synthesis
InitSynthesis == Init /\ synthesis.supported

\* the page on a platform with speech recognition and speech synthesis
InitBoth == InitSynthesis /\ recognitionRef # Null

SpecResults == InitBoth /\ [][NextResults]_vars

SpecRecognition == InitSynthesis /\ [][NextRecognition]_vars

\* the platform delivers the end event of a session that was stopped or
\* that reported an error
WindsDown(i) ==
    /\ i \in Sessions
    /\ SessionAt(i).state \in {"stopping", "errored"}
    /\ SessionEnds(i)

SpecRecognitionLive ==
    SpecRecognition /\ \A i \in 0..MaxOld : WF_vars(WindsDown(i))

SpecForward == InitBoth /\ [][NextForward]_vars

SpecReply == InitSynthesis /\ [][NextReply]_vars

SpecTranslation == InitBoth /\ [][NextTranslation]_vars

SpecSpeech == Init /\ [][NextSpeech]_vars

SpecTriggers == InitBoth /\ [][NextTriggers]_vars

\* the first render on a platform with speech recognition and without
\* speech synthesis
InitNoSynthesis == Init /\ recognitionRef # Null /\ ~synthesis.supported

SpecNoSynthesis == InitNoSynthesis /\ [][NextNoSynthesis]_vars

\* the first render on a platform with neither capability
InitUnsupported == Init /\ recognitionRef = Null /\ ~synthesis.supported

SpecUnsupported == InitUnsupported /\ [][NextUnsupported]_vars

-----------------------------------------------------------------------------
(* Claims about the result listener *)

RECURSIVE Concat(_)
Concat(texts) ==
    IF texts = << >> THEN << >> ELSE Head(texts) \o Concat(Tail(texts))

\* the segments of a batch from its resume index onward
Resumed(batch) == SubSeq(batch.results, batch.resultIndex + 1, Len(batch.results))

IsFinalSegment(segment) == segment.isFinal

\* the transcripts of the final segments from the resume index onward, joined
FinalText(batch) ==
    LET finals == SelectSeq(Resumed(batch), IsFinalSegment)
    IN Concat([k \in 1..Len(finals) |-> finals[k].transcript])

\* C1: a result batch leaves the finalized transcript equal to its value
\* before the batch followed by the transcripts, in order, of the batch's
\* final segments from the resume index onward; over a sequence of batches the
\* transcript is therefore the concatenation of those texts in delivery order.
C1_FinalizedIsConcatenation ==
    [][lastEvent'.op = "result" =>
          originalText' = originalText \o FinalText(lastEvent'.batch)]_vars

\* C1 witness: a batch whose resume index skips an earlier final segment has
\* been appended behind the text committed before
C1_Witness ==
    /\ lastEvent.op = "result"
    /\ lastEvent.batch.resultIndex = 1
    /\ Len(lastEvent.batch.results) = 2
    /\ lastEvent.batch.results[1] = [transcript |-> <<"a">>, isFinal |-> TRUE]
    /\ FinalText(lastEvent.batch) = <<" ">>
    /\ originalText = <<"a", " ">>

\* some segment from the resume index onward is marked final
HasFinalSegment(batch) ==
    \E k \in 1..Len(Resumed(batch)) : Resumed(batch)[k].isFinal

\* C2 as claimed: after a batch with at least one final segment, whatever its
\* transcript, the interim text is empty.
C2_InterimEmptyAfterAnyFinal ==
    (lastEvent.op = "result" /\ HasFinalSegment(lastEvent.batch))
        => interimText = EmptyText

\* C2 amended: after a batch whose final segments from the resume index onward
\* carry some text, the interim text is empty.
C2_InterimEmptyAfterFinalText ==
    (lastEvent.op = "result" /\ FinalText(lastEvent.batch) # EmptyText)
        => interimText = EmptyText

\* C2 witness: a batch with final text and a non-final segment was processed
C2_Witness ==
    /\ lastEvent.op = "result"
    /\ FinalText(lastEvent.batch) # EmptyText
    /\ \E k \in 1..Len(Resumed(lastEvent.batch)) :
          /\ ~Resumed(lastEvent.batch)[k].isFinal
          /\ Resumed(lastEvent.batch)[k].transcript # EmptyText
    /\ interimText = EmptyText

-----------------------------------------------------------------------------
(* Claims about the translation client and its watchers *)

\* the text has a character that is not white space
HasVisibleChar(text) == \E k \in 1..Len(text) : CodeOf(text[k]) \notin WhiteSpaceCodes

\* the characters of the model
Alphabet ==
    { Printable[k] : k \in 1..Len(Printable) }
        \cup { "\t", "\n", "\f", "\r" } \cup DOMAIN NamedChars

CharOf(cp) == CHOOSE c \in Alphabet : CodeOf(c) = cp

HexValue(d) == (CHOOSE k \in 1..16 : HexDigits[k] = d) - 1

\* the octets a URI component stands for
RECURSIVE Octets(_)
Octets(s) ==
    IF s = << >> THEN << >>
    ELSE IF Head(s) = "%"
         THEN << 16 * HexValue(s[2]) + HexValue(s[3]) >> \o Octets(SubSeq(s, 4, Len(s)))
         ELSE << CodeOf(Head(s)) >> \o Octets(Tail(s))

\* the characters a sequence of UTF-8 octets stands for
RECURSIVE Utf8Decode(_)
Utf8Decode(o) ==
    IF o = << >> THEN << >>
    ELSE IF o[1] < 128 THEN << CharOf(o[1]) >> \o Utf8Decode(Tail(o))
    ELSE IF o[1] < 224
         THEN << CharOf((o[1] - 192) * 64 + (o[2] - 128)) >>
              \o Utf8Decode(SubSeq(o, 3, Len(o)))
    ELSE << CharOf((o[1] - 224) * 4096 + (o[2] - 128) * 64 + (o[3] - 128)) >>
         \o Utf8Decode(SubSeq(o, 4, Len(o)))

\* the text the service reads back from the q parameter of a request
decodeURIComponent(s) == Utf8Decode(Octets(s))

\* the trigger values of the two watchers in a render
ForwardTrigger(view) == <<view.originalText, view.inputLanguage, view.outputLanguage>>
ReplyTrigger(view) == <<view.agentReply, view.outputLanguage, view.inputLanguage>>

\* the renders whose watchers run in the step, each with the values of the
\* render before it: the last render when its watchers were still owed, and
\* the render of the step itself when it is an event handler's
WatcherRuns ==
    (IF rendered' # rendered /\ Deps(rendered.view) # rendered.watched
     THEN << <<rendered.watched, rendered.view>> >> ELSE << >>)
    \o (IF rendered'.view # rendered.view /\ rendered'.watched = Deps(rendered'.view)
        THEN << <<rendered.view, rendered'.view>> >> ELSE << >>)

ForwardChanged(run) == ForwardTrigger(run[2]) # ForwardTrigger(run[1])
ReplyChanged(run) == ReplyTrigger(run[2]) # ReplyTrigger(run[1])

\* the (text, language pair) of every changed forward trigger with a
\* non-blank transcript among the watchers that run in the step, in order
ForwardWanted ==
    LET runs == SelectSeq(WatcherRuns,
                          LAMBDA run : /\ ForwardChanged(run)
                                       /\ HasVisibleChar(run[2].originalText))
    IN [k \in 1..Len(runs) |->
           <<runs[k][2].originalText,
             <<runs[k][2].inputLanguage, runs[k][2].outputLanguage>> >>]

\* likewise for the reply trigger
ReplyWanted ==
    LET runs == SelectSeq(WatcherRuns,
                          LAMBDA run : /\ ReplyChanged(run)
                                       /\ HasVisibleChar(run[2].agentReply))
    IN [k \in 1..Len(runs) |->
           <<runs[k][2].agentReply,
             <<runs[k][2].outputLanguage, runs[k][2].inputLanguage>> >>]

\* a watcher of the slot runs in the step for a changed trigger with blank text
ForwardBlankRun ==
    \E k \in 1..Len(WatcherRuns) :
       /\ ForwardChanged(WatcherRuns[k])
       /\ ~HasVisibleChar(WatcherRuns[k][2].originalText)

ReplyBlankRun ==
    \E k \in 1..Len(WatcherRuns) :
       /\ ReplyChanged(WatcherRuns[k])
       /\ ~HasVisibleChar(WatcherRuns[k][2].agentReply)

\* the requests of one slot, in issue order
OfSlot(reqs, slot) == SelectSeq(reqs, LAMBDA r : r.slot = slot)

\* the step issues, behind the requests of the slot in flight, exactly one
\* request for each element of wanted, carrying its text and pair
IssuesAll(slot, wanted) ==
    LET before == OfSlot(requests, slot)
        after == OfSlot(requests', slot)
    IN /\ Len(after) = Len(before) + Len(wanted)
       /\ SubSeq(after, 1, Len(before)) = before
       /\ \A k \in 1..Len(wanted) :
             /\ decodeURIComponent(after[Len(before) + k].q) = wanted[k][1]
             /\ after[Len(before) + k].langpair = wanted[k][2]

\* the step issues no request for the slot
IssuesNone(slot) == OfSlot(requests', slot) = OfSlot(requests, slot)

\* C3: when the forward watcher runs for a render that changed its trigger
\* to a non-blank transcript, it issues one request carrying (transcript,
\* input language, output language) as of that render; a successful response
\* sets the translated slot to the returned text; a failed one sets the
\* diagnostic "Translation failed. Please try again." and leaves the
\* translated slot as it was.
C3_ForwardTranslation ==
    [][/\ ForwardWanted # << >> => IssuesAll("forward", ForwardWanted)
       /\ (lastEvent'.op = "response" /\ lastEvent'.slot = "forward")
             => IF lastEvent'.outcome = "success"
                THEN translatedText' = lastEvent'.text
                ELSE /\ error' = "Translation failed. Please try again."
                     /\ translatedText' = translatedText]_vars

\* C3 witness: a forward request failed after an earlier one had succeeded,
\* and the earlier translation is still shown
C3_Witness ==
    /\ lastEvent.op = "response"
    /\ lastEvent.slot = "forward"
    /\ lastEvent.outcome \in {"network_error", "transport_not_ok", "payload_not_200"}
    /\ translatedText # EmptyText
    /\ error = "Translation failed. Please try again."

\* C4: right after a translate call of a slot has finished, by success or by
\* any failure, that slot's busy flag is false.
C4_BusyFlagCleared ==
    lastEvent.op = "response"
        => IF lastEvent.slot = "forward" THEN ~isTranslating ELSE ~isTranslatingReply

\* C4 witness: a reply translation has failed and its busy flag is down
C4_Witness ==
    /\ lastEvent.op = "response"
    /\ lastEvent.slot = "reply"
    /\ lastEvent.outcome = "network_error"
    /\ ~isTranslatingReply
    /\ error = "Agent reply translation failed. Please try again."

\* the steps whose handler does not write the diagnostic itself
LeavesDiagnostic(op) == op \in {"render", "effects", "reply", "outputLanguage"}

\* C5: when the watchers of a slot run for a changed trigger whose text is
\* empty or whitespace-only, and for no other, translate issues no request
\* for that slot and leaves the slot's busy flag; the forward translated slot
\* is left too (but for Clear, which empties it), and so is the diagnostic
\* when no translation starts in the step.
C5_BlankTextIsNoOp ==
    [][/\ (ForwardBlankRun /\ ForwardWanted = << >>)
             => /\ IssuesNone("forward")
                /\ isTranslating' = isTranslating
                /\ lastEvent'.op # "clear" => translatedText' = translatedText
       /\ (ReplyBlankRun /\ ReplyWanted = << >>)
             => /\ IssuesNone("reply")
                /\ isTranslatingReply' = isTranslatingReply
       /\ (/\ ForwardBlankRun \/ ReplyBlankRun
           /\ ForwardWanted = << >>
           /\ ReplyWanted = << >>
           /\ LeavesDiagnostic(lastEvent'.op))
             => /\ error' = error
                /\ requests' = requests]_vars

\* C5 witness: the forward watcher ran for a whitespace-only transcript while
\* a diagnostic was showing; nothing was requested and the diagnostic is
\* still there
C5_Witness ==
    /\ lastEvent.op = "effects"
    /\ rendered.view.originalText = <<" ">>
    /\ ~HasVisibleChar(agentReply)
    /\ error = "Agent reply translation failed. Please try again."
    /\ ~isTranslating
    /\ requests = << >>

\* C6: when the reply watcher runs for a render that changed its trigger to a
\* non-blank reply, it issues one request carrying (reply, output language,
\* input language); a successful response sets the reply-translated slot to
\* the returned text.
C6_ReverseTranslation ==
    [][/\ ReplyWanted # << >> => IssuesAll("reply", ReplyWanted)
       /\ (/\ lastEvent'.op = "response"
           /\ lastEvent'.slot = "reply"
           /\ lastEvent'.outcome = "success")
             => agentReplyTranslated' = lastEvent'.text]_vars

\* C6 witness: the reply-translated slot holds the service's answer
C6_Witness ==
    /\ lastEvent.op = "response"
    /\ lastEvent.slot = "reply"
    /\ lastEvent.outcome = "success"
    /\ inputLanguage # outputLanguage
    /\ agentReply = <<"a">>
    /\ agentReplyTranslated = <<"y">>

\* C7: a step in which the reply becomes empty or whitespace-only empties the
\* reply-translated slot and issues no request for the reply.
C7_BlankReplyClearsSlot ==
    [][(agentReply' # agentReply /\ ~HasVisibleChar(agentReply'))
          => /\ agentReplyTranslated' = EmptyText
             /\ IssuesNone("reply")]_vars

\* C7 witness: the reply was overwritten by white space while its translation
\* was still being fetched
C7_Witness ==
    /\ lastEvent.op = "reply"
    /\ agentReply = <<"\n">>
    /\ agentReplyTranslated = EmptyText
    /\ requests # << >>

\* the number of requests for the slot that the step adds
Issued(slot) == Len(OfSlot(requests', slot)) - Len(OfSlot(requests, slot))

\* C17: a step other than a response issues one forward request for each
\* render whose watchers run in it and that changed the transcript or a
\* language to a non-blank transcript, and no other; likewise one reply
\* request for each such change of the reply text or a language with a
\* non-blank reply, and no other.  A result batch without final text changes
\* the interim text only: no request, no other part of the state, nothing to
\* render.
C17_OneRequestPerChange ==
    [][/\ lastEvent'.op # "response"
             => /\ Issued("forward") = Len(ForwardWanted)
                /\ Issued("reply") = Len(ReplyWanted)
       /\ (lastEvent'.op = "result" /\ FinalText(lastEvent'.batch) = EmptyText)
             => UNCHANGED <<isRecording, originalText, translatedText, agentReply,
                            agentReplyTranslated, inputLanguage, outputLanguage,
                            isTranslating, isTranslatingReply, error, isSpeaking,
                            recognitionRef, oldRecognitions, requests,
                            synthesis, rendered>>]_vars

\* C17 witness: an interim-only batch arrived after the transcript and the
\* reply had both been translated; the interim text is shown and nothing is
\* being requested
C17_Witness ==
    /\ lastEvent.op = "result"
    /\ FinalText(lastEvent.batch) = EmptyText
    /\ interimText = <<"a">>
    /\ HasVisibleChar(originalText)
    /\ translatedText # EmptyText
    /\ HasVisibleChar(agentReply)
    /\ agentReplyTranslated # EmptyText
    /\ requests = << >>

IsPrefix(s, t) == Len(s) <= Len(t) /\ SubSeq(t, 1, Len(s)) = s

\* the translated slot of a request slot, after the step
SlotAfter(slot) == IF slot = "forward" THEN translatedText' ELSE agentReplyTranslated'

\* C20: no handler withdraws a request in flight: but for the step of a
\* response, the requests in flight before the step are still in flight after
\* it, in issue order, and a response removes its own request only, also
\* when it is the response to a request issued after another one of its slot
\* that is still in flight.  Every successful response leaves its slot
\* holding the returned text; in particular, when the request issued later
\* has been answered first, the successful response to the earlier request
\* leaves the slot holding the text returned for the earlier request.
C20_StaleResponseOverwrites ==
    [][/\ lastEvent'.op # "response" => IsPrefix(requests, requests')
       /\ lastEvent'.op = "response"
             => \E i \in 1..Len(requests) :
                   /\ requests[i].slot = lastEvent'.slot
                   /\ requests' = RemoveAt(requests, i)
                   /\ lastEvent'.ahead
                         => \E j \in 1..(i - 1) :
                               /\ requests[j].slot = requests[i].slot
                               /\ requests'[j] = requests[j]
       /\ (lastEvent'.op = "response" /\ lastEvent'.outcome = "success")
             => SlotAfter(lastEvent'.slot) = lastEvent'.text
       /\ (/\ lastEvent'.op = "response"
           /\ lastEvent'.outcome = "success"
           /\ lastEvent'.overtaken)
             => /\ lastEvent.op = "response"
                /\ lastEvent.slot = lastEvent'.slot
                /\ lastEvent.ahead
                /\ SlotAfter(lastEvent'.slot) = lastEvent'.text]_vars

\* C20 witness: two forward requests overlapped; the one issued later was
\* answered first, with "y"; the answer "x" to the one issued earlier arrived
\* after it, replaced the translation shown and is what the translated slot
\* finally holds, with no forward request left in flight
C20_Witness ==
    /\ lastEvent.op = "response"
    /\ lastEvent.slot = "forward"
    /\ lastEvent.outcome = "success"
    /\ lastEvent.overtaken
    /\ lastEvent.superseded
    /\ lastEvent.overwrote
    /\ lastEvent.text = <<"x">>
    /\ HasVisibleChar(originalText)
    /\ OfSlot(requests, "forward") = << >>
    /\ translatedText = <<"x">>

\* C21 as claimed: in every state, a slot with a request in flight has its
\* busy flag up, also when requests of the slot overlap and one of them has
\* been answered.
C21_BusyWhileInFlight ==
    /\ OfSlot(requests, "forward") # << >> => isTranslating
    /\ OfSlot(requests, "reply") # << >> => isTranslatingReply

\* the step is the response to a request of the slot
ResponseOf(slot) == lastEvent'.op = "response" /\ lastEvent'.slot = slot

\* C21 amended: the busy flag of a slot is up after every step that issues a
\* request of the slot, and it is lowered only by a step that is the response
\* to a request of that slot: it is up from the issue of a request until the
\* next response of the slot, whether or not other requests of the slot are
\* still in flight then.
C21_BusyUntilFirstResponse ==
    [][/\ Issued("forward") > 0 => isTranslating'
       /\ Issued("reply") > 0 => isTranslatingReply'
       /\ (isTranslating /\ ~isTranslating') => ResponseOf("forward")
       /\ (isTranslatingReply /\ ~isTranslatingReply') => ResponseOf("reply")]_vars

\* C21 witness: of two overlapping reply requests one has been answered; the
\* other is still in flight and the flag is down
C21_Witness ==
    /\ lastEvent.op = "response"
    /\ lastEvent.slot = "reply"
    /\ OfSlot(requests, "reply") # << >>
    /\ ~isTranslatingReply

\* C23 as claimed: in every state with a blank finalized transcript and no
\* forward request in flight, the translated slot is empty.
C23_BlankTranscriptNoTranslation ==
    (~HasVisibleChar(originalText) /\ OfSlot(requests, "forward") = << >>)
        => translatedText = EmptyText

\* C23 amended: Clear leaves the translated slot empty; and a step that
\* leaves the finalized transcript blank either leaves the translated slot
\* as it was or empty, or is the successful response to a forward request
\* (one issued before the transcript became blank), which writes its text.
C23_BlankTranscriptOnlyStaleResponse ==
    [][/\ lastEvent'.op = "clear" => translatedText' = EmptyText
       /\ ~HasVisibleChar(originalText')
             => \/ translatedText' = translatedText
                \/ translatedText' = EmptyText
                \/ /\ ResponseOf("forward")
                   /\ lastEvent'.outcome = "success"
                   /\ lastEvent'.superseded
                   /\ translatedText' = lastEvent'.text]_vars

\* C23 witness: Clear was pressed while a forward request was in flight;
\* the translated slot is empty and the request is still pending
C23_Witness ==
    /\ lastEvent.op = "clear"
    /\ originalText = EmptyText
    /\ OfSlot(requests, "forward") # << >>
    /\ translatedText = EmptyText
    /\ isTranslating

-----------------------------------------------------------------------------
(* Claims about speech output *)

\* C8: after speak the utterance just spoken is the only one in the engine,
\* also when it interrupted another; and whenever the engine has no utterance
\* left, the speaking flag is false, whichever callbacks were delivered.
C8_OnlyLastUtterance ==
    /\ (lastEvent.op = "speak" /\ synthesis.supported)
          => /\ Len(synthesis.queue) = 1
             /\ synthesis.queue[1].text = lastEvent.text
    /\ synthesis.queue = << >> => ~isSpeaking

\* C8 witness: a first utterance was interrupted (its callback is still owed)
\* and the second one has played to its end
C8_Witness ==
    /\ lastEvent = [op |-> "utteranceEnd", live |-> TRUE]
    /\ synthesis.cancelled = 1
    /\ synthesis.queue = << >>
    /\ ~isSpeaking

\* C15: in every state the synthesis engine holds at most one utterance,
\* playing or about to play: none is queued behind another, because every
\* speak empties the engine before it hands over the new utterance.
C15_AtMostOneUtterance ==
    Len(synthesis.queue) <= 1

\* C15 witness: a speak has interrupted an utterance that was in the engine;
\* the engine holds the new utterance only
C15_Witness ==
    /\ lastEvent.op = "speak"
    /\ synthesis.cancelled = 1
    /\ Len(synthesis.queue) = 1
    /\ synthesis.queue[1].text = lastEvent.text
    /\ ~synthesis.queue[1].started

Playing == HasLive /\ Live.started

\* C19 as claimed: the speaking flag is right in every state, whatever
\* callbacks of interrupted utterances were or were not delivered: it is true
\* exactly while the engine is playing an utterance, and right after a speak
\* (which resets it) it is false.
C19_FlagTracksPlayback ==
    /\ isSpeaking <=> Playing
    /\ (lastEvent.op = "speak" /\ synthesis.supported) => ~isSpeaking

-----------------------------------------------------------------------------
(* Claims about the recognition session *)

\* C9 as claimed: start() never reaches the platform's start on a session that
\* is still active, and a start while no session runs begins listening and
\* sets the status to recording.
C9_StartOnlyWhenNoSession ==
    lastEvent.op = "start"
        => /\ ~lastEvent.threw
           /\ isRecording
           /\ recognitionRef.state = "listening"

\* C10: once stop() was requested on a listening session, the end event of
\* that session (told by its locale) is eventually handled, leaving the status
\* idle and the interim text empty; and no end event changes the finalized
\* transcript.
C10_StopLeadsToIdle ==
    /\ \A lang \in {"en-US", "th-TH"} :
          (/\ lastEvent.op = "stop"
           /\ lastEvent.wasListening
           /\ recognitionRef.lang = lang)
             ~> (/\ lastEvent.op = "end"
                 /\ lastEvent.lang = lang
                 /\ ~isRecording
                 /\ interimText = EmptyText)
    /\ [][lastEvent'.op = "end"
             => /\ originalText' = originalText
                /\ interimText' = EmptyText
                /\ ~isRecording']_vars

\* C10 witness: a stopped session has ended; text was finalized before
C10_Witness ==
    /\ lastEvent.op = "end"
    /\ lastEvent.from = "stopping"
    /\ originalText # EmptyText
    /\ interimText = EmptyText
    /\ ~isRecording

\* some recognition object enters the listening state in the step
SessionBegins ==
    \/ recognitionRef'.state = "listening" /\ recognitionRef.state # "listening"
    \/ \E k \in 1..Len(oldRecognitions') :
          /\ oldRecognitions'[k].state = "listening"
          /\ \A j \in 1..Len(oldRecognitions) :
                oldRecognitions[j] # oldRecognitions'[k]

\* C11: a recognition error event leaves the status idle and the diagnostic
\* "Speech recognition error: " followed by the event's error code; and a
\* recognition object enters the listening state only in a step of the
\* user's start(), never in a step of a listener or of another handler.
C11_ErrorStopsWithoutRetry ==
    [][/\ lastEvent'.op = "error"
             => /\ ~isRecording'
                /\ error' = "Speech recognition error: " \o lastEvent'.code
       /\ SessionBegins => lastEvent'.op = "start"]_vars

\* C11 witness: a listening session reported "not-allowed"; the status is
\* idle, the diagnostic names the code and the session has not ended yet
C11_Witness ==
    /\ lastEvent.op = "error"
    /\ lastEvent.code = "not-allowed"
    /\ ~isRecording
    /\ error = "Speech recognition error: not-allowed"
    /\ recognitionRef.state = "errored"

\* some recognition object is listening after the step
ListeningAfter ==
    \/ recognitionRef'.state = "listening"
    \/ \E k \in 1..Len(oldRecognitions') : oldRecognitions'[k].state = "listening"

\* C14 as claimed: a change of the input language while a session is
\* listening leaves that session listening and the status recording.
C14_LanguageChangeKeepsSession ==
    [][(lastEvent'.op = "inputLanguage" /\ recognitionRef.state = "listening")
          => /\ isRecording'
             /\ ListeningAfter]_vars

\* C18 as claimed: a step taken while the current session is listening, and
\* that leaves it listening, keeps the finalized transcript of before as a
\* prefix of the finalized transcript of after.
C18_TranscriptGrowsInSession ==
    [][(recognitionRef.state = "listening" /\ recognitionRef'.state = "listening")
          => IsPrefix(originalText, originalText')]_vars

\* some recognition object, current or superseded, is listening
SomeListening == \E i \in Sessions : SessionAt(i).state = "listening"

\* C22 as claimed: in every state with the status idle no recognition
\* session is active; and right after an end event, which leaves the status
\* idle, no session is listening.
C22_StatusTracksSession ==
    /\ ~isRecording => Sessions = {}
    /\ lastEvent.op = "end" => ~SomeListening

-----------------------------------------------------------------------------
(* Claims about a platform without speech recognition *)

\* C12: on a platform without speech recognition the first render leaves the
\* diagnostic "Speech recognition is not supported in this browser."; in
\* every later state the status is not recording and no recognition object
\* or session exists; and a start() changes nothing of the page's state.
C12_StartInertWhenUnsupported ==
    /\ [](recognitionRef = Null
            => /\ ~isRecording
               /\ Sessions = {}
               /\ oldRecognitions = << >>
               /\ lastEvent.op = "mount"
                     => error = "Speech recognition is not supported in this browser.")
    /\ [][lastEvent'.op = "startIgnored"
             => /\ recognitionRef = Null
                /\ UNCHANGED <<viewVars, recognitionRef, oldRecognitions,
                               requests, synthesis>>]_vars

\* C12 witness: start() was called after the input language had been changed
\* and a reply typed; the status is idle and there is no recognition object
C12_Witness ==
    /\ lastEvent.op = "startIgnored"
    /\ recognitionRef = Null
    /\ inputLanguage = "en"
    /\ agentReply # EmptyText
    /\ ~isRecording

\* the diagnostics of a capability the platform does not offer
CapabilityUnavailable(message) ==
    message \in { "Speech recognition is not supported in this browser.",
                  "Text-to-speech is not supported in this browser." }

\* C13 as claimed: on a platform without speech recognition the diagnostic
\* slot shows a capability-unavailable message in every state, whatever was
\* typed, translated or cleared since the first render.
C13_UnsupportedDiagnosticPersists ==
    recognitionRef = Null => CapabilityUnavailable(error)

====
